---- MODULE Spec2Model ----
(***************************************************************************)
(* Outfit recommendation engine (app/recommender.py, app/scorer.py,        *)
(* app/models.py): the catalog index, the precomputed compatibility        *)
(* cache, candidate filtering, the bounded attempt loop that assembles     *)
(* outfits, and scoring / ranking of the accepted outfits.                 *)
(*                                                                         *)
(* Numbers.  Python floats are modelled by exact integers:                 *)
(*   - compatibility and selection scores are in hundredths (0.9 -> 90);   *)
(*   - scorer sub-scores are in units of 1/SUB (SUB = 6000, so that the    *)
(*     average over 2..5 items of hundredths is exact);                    *)
(*   - weights are in hundredths, so a total score is in units of          *)
(*     1/(100*SUB);                                                        *)
(*   - hues are exact fractions num/den of a degree;                       *)
(*   - prices and budgets are integers.                                    *)
(* Product identifiers are integers whose order stands for the order of    *)
(* the identifier strings.                                                 *)
(***************************************************************************)
EXTENDS Integers, Sequences, FiniteSets, TLC

None == "None"

(* ---------------------------------------------------------------------- *)
(* app/models.py                                                          *)
(* ---------------------------------------------------------------------- *)

TOP == "top"
BOTTOM == "bottom"
FOOTWEAR == "footwear"
ACCESSORY == "accessory"

ALL_SEASON == "all_season"

Color(r, g, b) == [r |-> r, g |-> g, b |-> b]

Product(id, category, style, color, price, season, occasion) ==
    [id |-> id, category |-> category, style |-> style, color |-> color,
     price |-> price, season |-> season, occasion |-> occasion]

Max2(a, b) == IF a >= b THEN a ELSE b
Min2(a, b) == IF a <= b THEN a ELSE b
Abs(a) == IF a >= 0 THEN a ELSE 0 - a

Max3(c) == Max2(c.r, Max2(c.g, c.b))
Min3(c) == Min2(c.r, Min2(c.g, c.b))

\* The hue branch of Color.to_hsv, as the exact fraction num/den of a degree.
\* The channels' common factor 1/255 cancels in (g - b) / delta.
HueOf(c, max_val, delta) ==
    IF delta = 0 THEN [num |-> 0, den |-> 1]
    ELSE IF max_val = c.r
         THEN [num |-> 60 * ((c.g - c.b) % (6 * delta)), den |-> delta]
    ELSE IF max_val = c.g
         THEN [num |-> 60 * ((c.b - c.r) + 2 * delta), den |-> delta]
    ELSE [num |-> 60 * ((c.r - c.g) + 4 * delta), den |-> delta]

\* Color.to_hsv()[0]
to_hsv_hue(c) == HueOf(c, Max3(c), Max3(c) - Min3(c))

\* The saturation branch of Color.to_hsv, as the exact fraction num/den.
SatOf(max_val, delta) ==
    IF max_val = 0 THEN [num |-> 0, den |-> 1] ELSE [num |-> delta, den |-> max_val]

\* Color.to_hsv()[1]
to_hsv_sat(c) == SatOf(Max3(c), Max3(c) - Min3(c))

\* if hue_diff > 180: hue_diff = 360 - hue_diff, on the fraction n/d.
FoldHue(n, d) ==
    IF n > 180 * d THEN [num |-> 360 * d - n, den |-> d] ELSE [num |-> n, den |-> d]

\* abs(h1 - h2) of two hues, folded.
HueDistance(h1, h2) ==
    FoldHue(Abs(h1.num * h2.den - h2.num * h1.den), h1.den * h2.den)

hue_diff(color1, color2) == HueDistance(to_hsv_hue(color1), to_hsv_hue(color2))

(* ---------------------------------------------------------------------- *)
(* app/recommender.py: construction                                       *)
(* ---------------------------------------------------------------------- *)

\* Scores of the coarse table, in hundredths.
ANALOGOUS == 90
COMPLEMENTARY == 85
TRIADIC == 75
LESS_COMPATIBLE == 60
DEFAULT_COMPATIBILITY == 50
STYLE_BONUS == 20

\* The coarse bands of _calculate_color_compatibility on a hue difference.
CoarseBand(hd) ==
    IF hd.num < 30 * hd.den THEN ANALOGOUS
    ELSE IF 150 * hd.den < hd.num /\ hd.num < 180 * hd.den THEN COMPLEMENTARY
    ELSE IF 115 * hd.den < hd.num /\ hd.num < 125 * hd.den THEN TRIADIC
    ELSE LESS_COMPATIBLE

_calculate_color_compatibility(color1, color2) ==
    CoarseBand(hue_diff(color1, color2))

\* dict[key] = value
DictPut(d, key, value) ==
    [k \in (DOMAIN d) \cup {key} |-> IF k = key THEN value ELSE d[k]]

EmptyDict == [k \in {} |-> 0]

\* tuple(sorted([id1, id2]))
SortedKey(id1, id2) == IF id1 <= id2 THEN <<id1, id2>> ELSE <<id2, id1>>

\* _index_products: by_category is a defaultdict(list), so it holds a key only
\* for a category that some product has (or that was read since); each list is
\* in catalog order.
IndexByCategory(prods) ==
    [category \in {prods[i].category : i \in DOMAIN prods} |->
        SelectSeq(prods, LAMBDA p : p.category = category)]

\* _index_products: by_id; the last product written under an id stays.
IndexById(prods) ==
    [id \in {prods[i].id : i \in DOMAIN prods} |->
        prods[CHOOSE i \in DOMAIN prods :
                 /\ prods[i].id = id
                 /\ \A j \in DOMAIN prods : prods[j].id = id => j <= i]]

\* The writes of the two loops of _precompute_compatibility, as the index pairs
\* <<i, j>> of "for i, p1 in enumerate(products): for p2 in products[i+offset:]".
LoopPairs(prods, offset) ==
    {<<i, j>> \in (DOMAIN prods) \X (DOMAIN prods) : j >= i + offset}

\* The dict those writes leave: under each key, the value of the last write
\* (loop order is by i, then by j).
CacheOfWrites(prods, pairs) ==
    LET Key(pr) == SortedKey(prods[pr[1]].id, prods[pr[2]].id)
        Later(q, pr) == q[1] < pr[1] \/ (q[1] = pr[1] /\ q[2] <= pr[2])
    IN  [k \in {Key(pr) : pr \in pairs} |->
            LET last == CHOOSE pr \in pairs :
                            /\ Key(pr) = k
                            /\ \A q \in pairs : Key(q) = k => Later(q, pr)
            IN  _calculate_color_compatibility(prods[last[1]].color,
                                               prods[last[2]].color)]

\* A slip of the slice bound: products[i:] pairs every product with itself too.
_precompute_compatibility_from_self(prods) ==
    CacheOfWrites(prods, LoopPairs(prods, 0))

\* products[i+1:]
_precompute_compatibility(prods) == CacheOfWrites(prods, LoopPairs(prods, 1))

(* ---------------------------------------------------------------------- *)
(* app/recommender.py: candidate filtering                                *)
(* ---------------------------------------------------------------------- *)

CategoryOrder == <<TOP, BOTTOM, FOOTWEAR, ACCESSORY>>

\* Optional[float]: None, or a number.
NoneNum == [some |-> FALSE, value |-> 0]
Some(v) == [some |-> TRUE, value |-> v]

\* Python truthiness of an Optional enum member: only None is false.
Truthy(x) == x # None

\* Python truthiness of an Optional[float]: None and 0 are false.
TruthyNum(x) == x.some /\ x.value # 0

Range(s) == {s[i] : i \in DOMAIN s}

\* self.by_category[category] on a defaultdict(list): the list, and the state of
\* the dict after the read (a missing key is inserted with an empty list).
ByCategoryGet(by_cat, category) ==
    IF category \in DOMAIN by_cat THEN by_cat[category] ELSE <<>>

ByCategoryAfterReads(by_cat) ==
    [k \in (DOMAIN by_cat) \cup Range(CategoryOrder) |-> ByCategoryGet(by_cat, k)]

FilterOccasion(cands, occasion) ==
    IF Truthy(occasion)
    THEN SelectSeq(cands, LAMBDA p : occasion \in p.occasion)
    ELSE cands

\* A season filter that forgets the all-season items.
FilterSeasonExact(cands, season) ==
    IF Truthy(season)
    THEN SelectSeq(cands, LAMBDA p : p.season = season)
    ELSE cands

FilterSeason(cands, season) ==
    IF Truthy(season)
    THEN SelectSeq(cands, LAMBDA p : p.season = season \/ p.season = ALL_SEASON)
    ELSE cands

FilterStyle(cands, style_preference, base_product) ==
    IF Truthy(style_preference)
    THEN SelectSeq(cands, LAMBDA p : p.style = style_preference
                                     \/ p.style = base_product.style)
    ELSE cands

\* p.price <= remaining_budget * 1.5, with both sides doubled.
FilterBudget(cands, max_budget, base_product) ==
    IF TruthyNum(max_budget)
    THEN LET remaining_budget == max_budget.value - base_product.price
         IN  SelectSeq(cands, LAMBDA p : 2 * p.price <= 3 * remaining_budget)
    ELSE cands

_filter_candidates(by_cat, base_product, occasion, season, max_budget, style_preference) ==
    [category \in Range(CategoryOrder) |->
        FilterBudget(
            FilterStyle(
                FilterSeason(
                    FilterOccasion(ByCategoryGet(by_cat, category), occasion),
                    season),
                style_preference, base_product),
            max_budget, base_product)]

(* ---------------------------------------------------------------------- *)
(* app/recommender.py: selection                                          *)
(* ---------------------------------------------------------------------- *)

\* A lookup that forgets to sort the key.
_get_compatibility_unsorted(cache, p1, p2) ==
    IF <<p1.id, p2.id>> \in DOMAIN cache THEN cache[<<p1.id, p2.id>>]
    ELSE DEFAULT_COMPATIBILITY

\* self.compatibility_cache.get(tuple(sorted([p1.id, p2.id])), 0.5)
_get_compatibility(cache, p1, p2) ==
    LET key == SortedKey(p1.id, p2.id)
    IN  IF key \in DOMAIN cache THEN cache[key] ELSE DEFAULT_COMPATIBILITY

\* list.sort(key=..., reverse=True) on records with a field key: descending and
\* stable.  Element i lands behind every element with a larger key and behind
\* the earlier elements with an equal key.
SortDesc(s) ==
    LET Rank(i) == Cardinality({j \in DOMAIN s :
                                   \/ s[j].key > s[i].key
                                   \/ (s[j].key = s[i].key /\ j < i)}) + 1
    IN  [r \in DOMAIN s |-> s[CHOOSE i \in DOMAIN s : Rank(i) = r]]

\* The scored list of _select_item before sorting: the base product is skipped.
ScoredCandidates(cache, candidates, base_product) ==
    LET kept == SelectSeq(candidates, LAMBDA p : p.id # base_product.id)
    IN  [i \in 1..Len(kept) |->
            [key |-> _get_compatibility(cache, base_product, kept[i])
                     + (IF kept[i].style = base_product.style
                        THEN STYLE_BONUS ELSE 0),
             val |-> kept[i]]]

\* scored[:max(4, len(scored) // 3)]: one candidate more than the top three.
TopCandidatesWide(scored) ==
    SubSeq(scored, 1, Min2(Len(scored), Max2(4, Len(scored) \div 3)))

\* scored[:max(3, len(scored) // 3)]
TopCandidates(scored) ==
    SubSeq(scored, 1, Min2(Len(scored), Max2(3, Len(scored) \div 3)))

\* _select_item raises ValueError exactly when the candidate list is empty.
SelectItemRaises(candidates) == candidates = <<>>

\* The products random.choice can return from _select_item (candidates not empty).
_select_item(cache, candidates, base_product) ==
    LET scored == SortDesc(ScoredCandidates(cache, candidates, base_product))
        top_candidates == TopCandidates(scored)
    IN  IF top_candidates # <<>>
        THEN {top_candidates[i].val : i \in DOMAIN top_candidates}
        ELSE Range(candidates)

(* ---------------------------------------------------------------------- *)
(* app/recommender.py: one outfit                                         *)
(* ---------------------------------------------------------------------- *)

\* random.randint(1, 4): one accessory too many.
NumAccessoriesWide == 1..4

\* random.randint(1, 3)
NumAccessories == 1..3

\* The loop body without the membership test.
AddAccessoryUnchecked(accessories, acc) == Append(accessories, acc)

\* if acc and acc not in accessories: accessories.append(acc)
AddAccessory(accessories, acc) ==
    IF acc \in Range(accessories) THEN accessories ELSE Append(accessories, acc)

\* The accessory lists that n iterations of the loop can build.
RECURSIVE AccessoriesAfter(_, _)
AccessoriesAfter(n, choices) ==
    IF n = 0 THEN {<<>>}
    ELSE {AddAccessory(s, acc) : s \in AccessoriesAfter(n - 1, choices),
                                 acc \in choices}

\* Lines 201-210: the accessory lists one attempt can end with.
SelectAccessories(cache, acc_candidates, base_product) ==
    IF acc_candidates = <<>> THEN {<<>>}
    ELSE LET choices == _select_item(cache, acc_candidates, base_product)
             looped == UNION {AccessoriesAfter(n, choices) : n \in NumAccessories}
         IN  UNION {IF s = <<>> THEN {<<acc>> : acc \in choices} ELSE {s}
                    : s \in looped}

\* The slot of a required category: the base product, or a selection.
SlotRaises(candidates, base_product, category) ==
    base_product.category # category /\ SelectItemRaises(candidates[category])

SlotChoices(cache, candidates, base_product, category) ==
    IF base_product.category = category THEN {base_product}
    ELSE _select_item(cache, candidates[category], base_product)

RECURSIVE SumPrices(_)
SumPrices(s) == IF s = <<>> THEN 0 ELSE s[1].price + SumPrices(Tail(s))

\* total_price that leaves the accessories out.
TotalPriceCoreOnly(top, bottom, footwear, accessories) ==
    top.price + bottom.price + footwear.price

TotalPrice(top, bottom, footwear, accessories) ==
    top.price + bottom.price + footwear.price + SumPrices(accessories)

Outfit(top, bottom, footwear, accessories) ==
    [top |-> top, bottom |-> bottom, footwear |-> footwear,
     accessories |-> accessories, match_score |-> 0, reasoning |-> <<>>,
     total_price |-> TotalPrice(top, bottom, footwear, accessories)]

\* _generate_single_outfit raises when a required slot has no candidate.
GenerateRaises(base_product, candidates) ==
    \E category \in {TOP, BOTTOM, FOOTWEAR} :
        SlotRaises(candidates, base_product, category)

\* The outfits _generate_single_outfit can return (when it does not raise).
_generate_single_outfit(cache, base_product, candidates) ==
    {Outfit(top, bottom, footwear, accessories) :
        top \in SlotChoices(cache, candidates, base_product, TOP),
        bottom \in SlotChoices(cache, candidates, base_product, BOTTOM),
        footwear \in SlotChoices(cache, candidates, base_product, FOOTWEAR),
        accessories \in SelectAccessories(cache, candidates[ACCESSORY],
                                          base_product)}

\* A duplicate test that also compares the accessories.
_is_duplicate_with_accessories(outfit, existing) ==
    \E i \in DOMAIN existing :
        /\ outfit.top.id = existing[i].top.id
        /\ outfit.bottom.id = existing[i].bottom.id
        /\ outfit.footwear.id = existing[i].footwear.id
        /\ outfit.accessories = existing[i].accessories

_is_duplicate(outfit, existing) ==
    \E i \in DOMAIN existing :
        /\ outfit.top.id = existing[i].top.id
        /\ outfit.bottom.id = existing[i].bottom.id
        /\ outfit.footwear.id = existing[i].footwear.id

(* ---------------------------------------------------------------------- *)
(* app/scorer.py                                                          *)
(* ---------------------------------------------------------------------- *)

\* One unit of a sub-score is 1/SUB; a weight is in hundredths.
SUB == 6000

COLOR_WEIGHT == 30
STYLE_WEIGHT == 25
OCCASION_WEIGHT == 20
SEASON_WEIGHT == 15
BUDGET_WEIGHT == 10

OutfitItems(outfit) ==
    <<outfit.top, outfit.bottom, outfit.footwear>> \o outfit.accessories

\* The fine bands of _score_color_harmony on a hue difference, in hundredths.
FineBand(hd) ==
    IF hd.num < 15 * hd.den THEN 95
    ELSE IF hd.num < 30 * hd.den THEN 85
    ELSE IF 115 * hd.den < hd.num /\ hd.num < 125 * hd.den THEN 75
    ELSE IF 150 * hd.den < hd.num /\ hd.num < 180 * hd.den THEN 80
    ELSE IF 30 * hd.den < hd.num /\ hd.num < 60 * hd.den THEN 70
    ELSE 50

ItemColorScore(color, base_color) == FineBand(hue_diff(color, base_color))

\* harmony_score: the sum over colors[1:] of the per-item scores.
RECURSIVE SumItemColorScores(_, _, _)
SumItemColorScores(items, i, base_color) ==
    IF i > Len(items) THEN 0
    ELSE ItemColorScore(items[i].color, base_color)
         + SumItemColorScores(items, i + 1, base_color)

\* saturation < 0.2
LowSaturation(sat) == 5 * sat.num < sat.den

IsNeutral(color) == LowSaturation(to_hsv_sat(color))

NeutralCount(items) == Cardinality({i \in DOMAIN items : IsNeutral(items[i].color)})

\* min(0.1, neutral_count * 0.03), or 0 without a neutral item.
NeutralBonus(neutral_count) ==
    IF neutral_count > 0
    THEN Min2(SUB \div 10, neutral_count * ((3 * SUB) \div 100))
    ELSE 0

\* harmony_score / len(colors[1:]) if len(colors) > 1 else 0.5
AverageScore(harmony_score, n_colors) ==
    IF n_colors > 1 THEN (harmony_score * (SUB \div 100)) \div (n_colors - 1)
    ELSE SUB \div 2

ColorHarmonyOf(items) ==
    Min2(SUB, AverageScore(SumItemColorScores(items, 2, items[1].color), Len(items))
              + NeutralBonus(NeutralCount(items)))

_score_color_harmony(outfit) == ColorHarmonyOf(OutfitItems(outfit))

\* The three bands of the style score on matches out of total.
StyleBands(matches, total) ==
    IF total = 0 THEN SUB
    ELSE IF matches = total THEN SUB
    ELSE IF 2 * matches >= total THEN (75 * SUB) \div 100
    ELSE (55 * SUB) \div 100

StyleMatches(items) ==
    Cardinality({i \in 2..Len(items) : items[i].style = items[1].style})

_score_style_compatibility(outfit) ==
    StyleBands(StyleMatches(OutfitItems(outfit)), Len(OutfitItems(outfit)) - 1)

\* The four bands shared by occasion and season fit: the ratio matching/total
\* against 0.8, 0.6 and 0.4.
FitBands(matching_items, total) ==
    IF 10 * matching_items >= 8 * total THEN SUB
    ELSE IF 10 * matching_items >= 6 * total THEN (8 * SUB) \div 10
    ELSE IF 10 * matching_items >= 4 * total THEN (6 * SUB) \div 10
    ELSE (4 * SUB) \div 10

OccasionMatches(items, target_occasion) ==
    Cardinality({i \in DOMAIN items : target_occasion \in items[i].occasion})

_score_occasion_fit(outfit, target_occasion) ==
    IF ~Truthy(target_occasion) THEN (7 * SUB) \div 10
    ELSE FitBands(OccasionMatches(OutfitItems(outfit), target_occasion),
                  Len(OutfitItems(outfit)))

SeasonMatches(items, target_season) ==
    Cardinality({i \in DOMAIN items :
                    items[i].season = target_season \/ items[i].season = ALL_SEASON})

_score_season_fit(outfit, target_season) ==
    IF ~Truthy(target_season) THEN (7 * SUB) \div 10
    ELSE FitBands(SeasonMatches(OutfitItems(outfit), target_season),
                  Len(OutfitItems(outfit)))

\* Budget bands without the floor max(0.1, ...) and the cap min(0.5, ...).
BudgetBandsUnclamped(total_price, budget) ==
    IF total_price <= budget
    THEN IF 10 * total_price < 7 * budget THEN (9 * SUB) \div 10 ELSE SUB
    ELSE SUB \div 2 - ((total_price - budget) * SUB) \div budget

\* The budget bands on a total price and a (truthy) budget.  overage / budget
\* is exact in units of 1/SUB for the budgets of this model, which divide SUB.
BudgetBands(total_price, budget) ==
    IF total_price <= budget
    THEN IF 10 * total_price < 7 * budget THEN (9 * SUB) \div 10 ELSE SUB
    ELSE Max2(SUB \div 10,
              SUB \div 2 - Min2(SUB \div 2, ((total_price - budget) * SUB) \div budget))

_score_budget(outfit, max_budget) ==
    IF ~TruthyNum(max_budget) THEN (7 * SUB) \div 10
    ELSE BudgetBands(outfit.total_price, max_budget.value)

\* Clauses that test the sub-scores only, not whether a target was given.
ReasoningPartsNoTargetCheck(color_score, style_score, occasion_score, season_score, target_occasion, target_season, max_budget) ==
    <<IF 10 * color_score >= 8 * SUB THEN "Excellent color harmony"
      ELSE IF 10 * color_score >= 6 * SUB THEN "Good color coordination"
      ELSE "Color harmony">>
    \o (IF 10 * style_score >= 8 * SUB THEN <<"Style">> ELSE <<>>)
    \o (IF 10 * occasion_score >= 7 * SUB THEN <<"Occasion">> ELSE <<>>)
    \o (IF 10 * season_score >= 7 * SUB THEN <<"Season">> ELSE <<>>)
    \o (IF TruthyNum(max_budget) THEN <<"Budget">> ELSE <<>>)

\* The clauses of the reasoning string, in order (the text after each colon is
\* left out).
ReasoningParts(color_score, style_score, occasion_score, season_score, target_occasion, target_season, max_budget) ==
    <<IF 10 * color_score >= 8 * SUB THEN "Excellent color harmony"
      ELSE IF 10 * color_score >= 6 * SUB THEN "Good color coordination"
      ELSE "Color harmony">>
    \o (IF 10 * style_score >= 8 * SUB THEN <<"Style">> ELSE <<>>)
    \o (IF Truthy(target_occasion) /\ 10 * occasion_score >= 7 * SUB
        THEN <<"Occasion">> ELSE <<>>)
    \o (IF Truthy(target_season) /\ 10 * season_score >= 7 * SUB
        THEN <<"Season">> ELSE <<>>)
    \o (IF TruthyNum(max_budget) THEN <<"Budget">> ELSE <<>>)

\* ". ".join(parts) if parts else "Well-coordinated outfit"
JoinParts(parts) == IF parts # <<>> THEN parts ELSE <<"Well-coordinated outfit">>

_generate_reasoning(color_score, style_score, occasion_score, season_score, target_occasion, target_season, max_budget) ==
    JoinParts(ReasoningParts(color_score, style_score, occasion_score,
                             season_score, target_occasion, target_season,
                             max_budget))

\* A total that forgets the weights: the plain sum of the sub-scores.
WeightedTotalUnweighted(color_score, style_score, occasion_score, season_score, budget_score) ==
    100 * (color_score + style_score + occasion_score + season_score
           + budget_score)

\* The weighted sum of score_outfit, in units of 1/(100*SUB).
WeightedTotal(color_score, style_score, occasion_score, season_score, budget_score) ==
    color_score * COLOR_WEIGHT + style_score * STYLE_WEIGHT
    + occasion_score * OCCASION_WEIGHT + season_score * SEASON_WEIGHT
    + budget_score * BUDGET_WEIGHT

\* The five sub-scores of score_outfit.
SubScores(outfit, target_occasion, target_season, max_budget) ==
    [color |-> _score_color_harmony(outfit),
     style |-> _score_style_compatibility(outfit),
     occasion |-> _score_occasion_fit(outfit, target_occasion),
     season |-> _score_season_fit(outfit, target_season),
     budget |-> _score_budget(outfit, max_budget)]

ScoreFrom(sub, target_occasion, target_season, max_budget) ==
    [score |-> WeightedTotal(sub.color, sub.style, sub.occasion, sub.season,
                             sub.budget),
     reasoning |-> _generate_reasoning(sub.color, sub.style, sub.occasion,
                                       sub.season, target_occasion,
                                       target_season, max_budget)]

\* score_outfit: [score, reasoning].
score_outfit(outfit, target_occasion, target_season, max_budget) ==
    ScoreFrom(SubScores(outfit, target_occasion, target_season, max_budget),
              target_occasion, target_season, max_budget)

(* ---------------------------------------------------------------------- *)
(* Catalogs and requests of the model                                     *)
(* ---------------------------------------------------------------------- *)

WHITE == Color(255, 255, 255)
BLACK == Color(20, 20, 20)
NAVY == Color(0, 32, 96)
RED == Color(255, 0, 0)
GREEN == Color(0, 255, 0)
CYAN == Color(0, 255, 255)
ORANGE == Color(255, 128, 0)

\* Two tops, four bottoms (one more than the top three), one footwear, two
\* accessories.
CatalogA ==
    <<Product(1, TOP, "casual", WHITE, 30, ALL_SEASON, {"everyday", "work", "travel"}),
      Product(2, TOP, "formal", NAVY, 200, ALL_SEASON, {"work"}),
      Product(3, BOTTOM, "casual", NAVY, 60, ALL_SEASON, {"everyday", "work", "travel"}),
      Product(4, BOTTOM, "formal", BLACK, 90, ALL_SEASON, {"work"}),
      Product(5, BOTTOM, "casual", RED, 40, "summer", {"everyday"}),
      Product(6, BOTTOM, "sporty", GREEN, 50, "winter", {"everyday", "sports"}),
      Product(7, FOOTWEAR, "casual", WHITE, 80, "fall", {"everyday", "work", "travel"}),
      Product(8, ACCESSORY, "casual", ORANGE, 20, ALL_SEASON, {"everyday"}),
      Product(9, ACCESSORY, "formal", CYAN, 60, "winter", {"work", "party"})>>

\* One product of each category.
CatalogB ==
    <<Product(1, TOP, "casual", WHITE, 30, ALL_SEASON, {"everyday"}),
      Product(2, BOTTOM, "casual", NAVY, 60, ALL_SEASON, {"everyday"}),
      Product(3, FOOTWEAR, "casual", BLACK, 80, ALL_SEASON, {"everyday", "work"}),
      Product(4, ACCESSORY, "formal", RED, 20, ALL_SEASON, {"everyday"})>>

\* No accessory at all; identifiers not in list order; the two bottoms differ
\* in nothing that the scorer reads, so their outfits tie.
CatalogC ==
    <<Product(4, TOP, "casual", RED, 30, ALL_SEASON, {"everyday"}),
      Product(3, BOTTOM, "casual", GREEN, 60, ALL_SEASON, {"everyday"}),
      Product(2, BOTTOM, "casual", GREEN, 70, ALL_SEASON, {"everyday"}),
      Product(1, FOOTWEAR, "casual", BLACK, 80, ALL_SEASON, {"everyday"})>>

\* Twelve accessories, so that the top third holds four of them.
CatalogD ==
    <<Product(1, TOP, "casual", WHITE, 30, ALL_SEASON, {"everyday"}),
      Product(2, BOTTOM, "casual", NAVY, 60, ALL_SEASON, {"everyday"}),
      Product(3, FOOTWEAR, "casual", BLACK, 80, ALL_SEASON, {"everyday"})>>
    \o [i \in 1..12 |->
           Product(3 + i, ACCESSORY, IF i % 2 = 0 THEN "casual" ELSE "formal",
                   IF i % 3 = 0 THEN RED ELSE IF i % 3 = 1 THEN GREEN ELSE NAVY,
                   10 + i, ALL_SEASON, {"everyday"})]

\* Four bottoms, of which the selection keeps the best three; one footwear;
\* no accessory.
CatalogE ==
    <<Product(1, TOP, "casual", WHITE, 30, ALL_SEASON, {"everyday"}),
      Product(2, BOTTOM, "casual", NAVY, 60, ALL_SEASON, {"everyday"}),
      Product(3, BOTTOM, "formal", BLACK, 90, ALL_SEASON, {"everyday"}),
      Product(4, BOTTOM, "casual", RED, 40, ALL_SEASON, {"everyday"}),
      Product(5, BOTTOM, "sporty", GREEN, 50, ALL_SEASON, {"everyday"}),
      Product(6, FOOTWEAR, "casual", BLACK, 80, ALL_SEASON, {"everyday"})>>

Catalogs == {CatalogA, CatalogB, CatalogC, CatalogD, CatalogE}

\* The largest num_recommendations of a request, and the number of calls the
\* host may have in progress at once.
MaxNum == 2
NumCalls == 2

Calls == 1..NumCalls

\* An identifier that no catalog holds.
UNKNOWN_ID == 99

Request(base_product_id, occasion, season, max_budget, style_preference, num_recommendations) ==
    [base_product_id |-> base_product_id, occasion |-> occasion,
     season |-> season, max_budget |-> max_budget,
     style_preference |-> style_preference,
     num_recommendations |-> num_recommendations]

NoRequest == Request(0, None, None, NoneNum, None, 0)

RequestsA ==
    {Request(b, None, None, NoneNum, None, n) : b \in {1, 3, 8}, n \in 1..MaxNum}
    \cup {Request(1, "travel", None, NoneNum, None, n) : n \in 1..MaxNum}
    \cup {Request(1, None, "summer", NoneNum, None, n) : n \in 1..MaxNum}
    \cup {Request(1, "work", None, Some(200), None, n) : n \in 1..MaxNum}
    \cup {Request(3, None, None, Some(0), "sporty", n) : n \in 1..MaxNum}
    \cup {Request(UNKNOWN_ID, "work", "summer", Some(200), "formal", n) : n \in 1..MaxNum}
    \cup {Request(3, "everyday", "fall", Some(300), "sporty", n) : n \in 1..MaxNum}

RequestsB ==
    {Request(b, None, None, NoneNum, None, n) : b \in {1, 4, UNKNOWN_ID}, n \in 0..MaxNum}
    \cup {Request(1, "work", None, NoneNum, None, n) : n \in 1..MaxNum}

\* Requests of calls that overlap: each is served within one attempt, or fails.
RequestsConcurrent ==
    {Request(1, None, None, NoneNum, None, 1),
     Request(4, None, None, NoneNum, None, 1),
     Request(UNKNOWN_ID, None, None, NoneNum, None, 1)}

\* Budgets of 150, 180 and 360 against outfits of 170 and 180: 20% over the
\* budget, exactly the budget, and half of it.
RequestsC ==
    {Request(b, None, None, Some(100), None, n) : b \in {4, 1, 0}, n \in 1..MaxNum}
    \cup {Request(4, None, None, Some(budget), None, n) :
             budget \in {150, 180, 360}, n \in 1..MaxNum}

RequestsD ==
    {Request(1, None, None, NoneNum, None, n) : n \in 1..MaxNum}
    \cup {Request(5, None, None, NoneNum, None, 1)}

\* As many outfits as the best three bottoms allow, and one more.
RequestsE ==
    {Request(1, None, None, NoneNum, None, n) : n \in {3, 4}}

Requests(prods, w) ==
    IF w > 1 THEN RequestsConcurrent
    ELSE IF prods = CatalogA THEN RequestsA
    ELSE IF prods = CatalogB THEN RequestsB
    ELSE IF prods = CatalogC THEN RequestsC
    ELSE IF prods = CatalogD THEN RequestsD
    ELSE RequestsE

(* ---------------------------------------------------------------------- *)
(* State                                                                  *)
(* ---------------------------------------------------------------------- *)

VARIABLES
    products,             \* OutfitRecommender.products
    by_category,          \* OutfitRecommender.by_category
    by_id,                \* OutfitRecommender.by_id
    compatibility_cache,  \* OutfitRecommender.compatibility_cache
    workers,              \* how many calls the host runs at once
    pc,                   \* per call: "idle", "loop", "returned", "raised"
    request,              \* per call: the RecommendationRequest
    base_product,         \* per call: local base_product
    candidates,           \* per call: local candidates
    outfits,              \* per call: local outfits
    attempts,             \* per call: local attempts
    returned,             \* per call: the list handed back to the caller
    recommendation_cache, \* RecommendationCache.cache, in the dict's order
    max_size,             \* RecommendationCache.max_size
    cached_result,        \* what the last RecommendationCache.get returned
    inserted_at,          \* history: when each cached key was inserted
    clock                 \* history: the number of set calls so far

engineVars == <<products, by_category, by_id, compatibility_cache, workers>>
callVars == <<pc, request, base_product, candidates, outfits, attempts, returned>>
cacheVars == <<recommendation_cache, max_size, cached_result, inserted_at, clock>>
vars == <<engineVars, callVars, cacheVars>>

MAX_ATTEMPTS == 100

\* RecommendationCache(): max_size defaults to 1000.
DEFAULT_MAX_SIZE == 1000

\* dict.get on a missing key returns None.
Miss == [hit |-> FALSE, value |-> <<>>]
Hit(v) == [hit |-> TRUE, value |-> v]

NoProduct == Product(0, None, None, Color(0, 0, 0), 0, None, {})
NoCandidates == [category \in Range(CategoryOrder) |-> <<>>]

\* The host: generate_mock_products(), OutfitRecommender(products).
Init ==
    /\ \E cat \in Catalogs, w \in 1..NumCalls :
          /\ (w > 1 => cat = CatalogB)
          /\ products = cat
          /\ workers = w
    /\ by_category = IndexByCategory(products)
    /\ by_id = IndexById(products)
    /\ compatibility_cache = _precompute_compatibility(products)
    /\ pc = [c \in Calls |-> "idle"]
    /\ request = [c \in Calls |-> NoRequest]
    /\ base_product = [c \in Calls |-> NoProduct]
    /\ candidates = [c \in Calls |-> NoCandidates]
    /\ outfits = [c \in Calls |-> <<>>]
    /\ attempts = [c \in Calls |-> 0]
    /\ returned = [c \in Calls |-> <<>>]
    /\ recommendation_cache = <<>>
    /\ max_size = DEFAULT_MAX_SIZE
    /\ cached_result = Miss
    /\ inserted_at = EmptyDict
    /\ clock = 0

(* ---------------------------------------------------------------------- *)
(* generate_recommendations                                               *)
(* ---------------------------------------------------------------------- *)

SetCall(f, c, v) == [f EXCEPT ![c] = v]

\* The host takes a request when it has a free slot, on its first idle call.
CanBegin(c) ==
    /\ pc[c] = "idle"
    /\ Cardinality({d \in Calls : pc[d] # "idle"}) < workers
    /\ \A d \in Calls : d < c => pc[d] # "idle"

\* A lookup with a fallback: self.by_id.get(id, self.products[0]).
GetBaseProductOrFirst(by, prods, id) ==
    IF id \in DOMAIN by THEN by[id] ELSE prods[1]

\* Line 76: self.by_id.get(request.base_product_id); NoProduct stands for None.
GetBaseProduct(by, prods, id) ==
    IF id \in DOMAIN by THEN by[id] ELSE NoProduct

\* Lines 76-92: the lookup of the base product (ValueError when it is missing),
\* the filtering of the candidates, and the loop's initial state.
BeginWith(c, req, base) ==
    /\ request' = SetCall(request, c, req)
    /\ IF base # NoProduct
       THEN /\ pc' = SetCall(pc, c, "loop")
            /\ base_product' = SetCall(base_product, c, base)
            /\ candidates' =
                  SetCall(candidates, c,
                          _filter_candidates(by_category, base, req.occasion,
                                             req.season, req.max_budget,
                                             req.style_preference))
            /\ by_category' = ByCategoryAfterReads(by_category)
       ELSE /\ pc' = SetCall(pc, c, "raised")
            /\ UNCHANGED <<base_product, candidates, by_category>>
    /\ UNCHANGED <<products, by_id, compatibility_cache, workers,
                   outfits, attempts, returned>>
    /\ UNCHANGED cacheVars

Begin(c) ==
    /\ CanBegin(c)
    /\ \E req \in Requests(products, workers) :
          BeginWith(c, req, GetBaseProduct(by_id, products, req.base_product_id))

\* An off-by-one loop bound: attempts <= max_attempts.
LoopContinuesInclusive(c) ==
    /\ Len(outfits[c]) < request[c].num_recommendations
    /\ attempts[c] <= MAX_ATTEMPTS

\* Line 94: the while condition.
LoopContinues(c) ==
    /\ Len(outfits[c]) < request[c].num_recommendations
    /\ attempts[c] < MAX_ATTEMPTS

\* A lookup that memoizes the selection scores in the shared index.
CacheAfterAttemptMemoizing(cache, base, cands) ==
    [k \in DOMAIN cache |->
        IF \E category \in DOMAIN cands : \E i \in DOMAIN cands[category] :
              k = SortedKey(base.id, cands[category][i].id)
              /\ cands[category][i].style = base.style
        THEN cache[k] + STYLE_BONUS ELSE cache[k]]

\* The index after the lookups of one attempt: dict.get(key, default) stores
\* nothing.
CacheAfterAttempt(cache, base, cands) == cache

\* A handler for the wrong class: "except KeyError".
CaughtKeyErrorOnly(exc) == exc = "KeyError"

\* Line 107: "except Exception" catches every exception class.
Caught(exc) == TRUE

\* Lines 95-109: one iteration.  A ValueError of _select_item is caught and the
\* attempt skipped; a duplicate is dropped; anything else is appended.
Attempt(c) ==
    /\ pc[c] = "loop"
    /\ LoopContinues(c)
    /\ attempts' = SetCall(attempts, c, attempts[c] + 1)
    /\ IF GenerateRaises(base_product[c], candidates[c])
       THEN /\ pc' = IF Caught("ValueError") THEN pc ELSE SetCall(pc, c, "raised")
            /\ UNCHANGED outfits
       ELSE /\ \E outfit \in _generate_single_outfit(compatibility_cache,
                                                     base_product[c],
                                                     candidates[c]) :
                  outfits' = IF _is_duplicate(outfit, outfits[c])
                             THEN outfits
                             ELSE SetCall(outfits, c, Append(outfits[c], outfit))
            /\ UNCHANGED pc
    /\ compatibility_cache' =
          CacheAfterAttempt(compatibility_cache, base_product[c], candidates[c])
    /\ UNCHANGED <<products, by_category, by_id, workers,
                   request, base_product, candidates, returned>>
    /\ UNCHANGED cacheVars

\* outfit.match_score = score; outfit.reasoning = reasoning
WithScore(outfit, r) ==
    [outfit EXCEPT !.match_score = r.score, !.reasoning = r.reasoning]

\* Lines 118-123: every accepted outfit gets its score and reasoning.
ScoreAll(accepted, req) ==
    [i \in DOMAIN accepted |->
        WithScore(accepted[i],
                  score_outfit(accepted[i], req.occasion, req.season,
                               req.max_budget))]

\* An ascending (reverse=False) sort of the scored outfits.
SortAsc(s) ==
    LET Rank(i) == Cardinality({j \in DOMAIN s :
                                   \/ s[j].key < s[i].key
                                   \/ (s[j].key = s[i].key /\ j < i)}) + 1
    IN  [r \in DOMAIN s |-> s[CHOOSE i \in DOMAIN s : Rank(i) = r]]

SortOutfitsAscending(scored) ==
    LET keyed == [i \in DOMAIN scored |-> [key |-> scored[i].match_score,
                                          val |-> scored[i]]]
        sorted == SortAsc(keyed)
    IN  [i \in DOMAIN sorted |-> sorted[i].val]

\* Line 126: scored_outfits.sort(key=match_score, reverse=True)
SortOutfits(scored) ==
    LET keyed == [i \in DOMAIN scored |-> [key |-> scored[i].match_score,
                                          val |-> scored[i]]]
        sorted == SortDesc(keyed)
    IN  [i \in DOMAIN sorted |-> sorted[i].val]

\* Line 128: scored_outfits[:n]
Truncate(s, n) ==
    IF n >= 0 THEN SubSeq(s, 1, Min2(n, Len(s)))
    ELSE SubSeq(s, 1, Max2(0, Len(s) + n))

\* Lines 111-128: the loop has ended; score, rank, truncate, return.  The locals
\* go out of scope.
Finish(c) ==
    /\ pc[c] = "loop"
    /\ ~LoopContinues(c)
    /\ returned' = SetCall(returned, c,
                           Truncate(SortOutfits(ScoreAll(outfits[c], request[c])),
                                    request[c].num_recommendations))
    /\ pc' = SetCall(pc, c, "returned")
    /\ base_product' = SetCall(base_product, c, NoProduct)
    /\ candidates' = SetCall(candidates, c, NoCandidates)
    /\ outfits' = SetCall(outfits, c, <<>>)
    /\ attempts' = SetCall(attempts, c, 0)
    /\ UNCHANGED <<engineVars, request, cacheVars>>

\* The caller has consumed the list or the error; the call slot is free again.
Return(c) ==
    /\ pc[c] \in {"returned", "raised"}
    /\ pc' = SetCall(pc, c, "idle")
    /\ request' = SetCall(request, c, NoRequest)
    /\ returned' = SetCall(returned, c, <<>>)
    /\ UNCHANGED <<engineVars, base_product, candidates, outfits, attempts,
                   cacheVars>>

Next ==
    \E c \in Calls : Begin(c) \/ Attempt(c) \/ Finish(c) \/ Return(c)

Spec == Init /\ [][Next]_vars

(* ---------------------------------------------------------------------- *)
(* app/cache.py                                                           *)
(* ---------------------------------------------------------------------- *)

\* The largest max_size of a cache, and the number of set calls of a run.
MaxCacheSize == 3
MaxCacheOps == 5

\* round(match_score, 3): a score in units of 1/(100*SUB) to thousandths.
RoundMilli(score) == (2 * score * 1000 + 100 * SUB) \div (2 * 100 * SUB)

\* Outfit.to_dict: the items (enum members are their values already), the
\* score rounded to three places, the price to two (prices are whole here).
OutfitToDict(o) ==
    [top |-> o.top, bottom |-> o.bottom, footwear |-> o.footwear,
     accessories |-> o.accessories, match_score |-> RoundMilli(o.match_score),
     reasoning |-> o.reasoning, total_price |-> o.total_price]

\* _cache_key: the six request fields in the order of the sorted JSON keys;
\* the digest of the encoding is taken to be one-to-one.
_cache_key(req) ==
    <<req.base_product_id, req.max_budget, req.num_recommendations,
      req.occasion, req.season, req.style_preference>>

\* The keys of the dict, and the position of a key in its order.
Keys(d) == {d[i].key : i \in DOMAIN d}
IndexOfKey(d, key) == CHOOSE i \in DOMAIN d : d[i].key = key

\* self.cache.get(key)
DictGet(d, key) ==
    IF key \in Keys(d) THEN Hit(d[IndexOfKey(d, key)].value) ELSE Miss

\* self.cache[key] = value: a present key keeps its place in the dict's
\* order, a new key goes to the end.
DictSet(d, key, value) ==
    IF key \in Keys(d)
    THEN [d EXCEPT ![IndexOfKey(d, key)].value = value]
    ELSE Append(d, [key |-> key, value |-> value])

\* An eviction that removes the entry inserted last (dict.popitem()).
EvictLast(d) == IF d # <<>> THEN SubSeq(d, 1, Len(d) - 1) ELSE d

\* Lines 47-49: del self.cache[next(iter(self.cache))], if there is an entry.
EvictFirst(d) == IF d # <<>> THEN Tail(d) ELSE d

\* Lines 45-49: the dict after the eviction test.
AfterEviction(d, size) == IF Len(d) >= size THEN EvictFirst(d) ELSE d

\* The requests and the outfit lists the cache is called with.
CacheRequests ==
    {Request(1, None, None, NoneNum, None, 1),
     Request(1, None, None, NoneNum, None, 2),
     Request(1, "work", None, Some(200), None, 1)}

CacheOutfitLists ==
    {<<>>}
    \cup {ScoreAll(<<o>>, Request(1, None, None, NoneNum, None, 1)) :
             o \in _generate_single_outfit(
                       _precompute_compatibility(CatalogB), CatalogB[1],
                       _filter_candidates(IndexByCategory(CatalogB), CatalogB[1],
                                          None, None, NoneNum, None))}

\* The insertion times after a set: an entry that stays keeps its time, a
\* key that was not there gets the current time.
InsertedAfterSet(kept, key, now) ==
    [k \in Keys(kept) \cup {key} |->
        IF k \in Keys(kept) THEN inserted_at[k] ELSE now]

\* A cache of some size, on the engine of one catalog, with no call running.
CacheInit ==
    /\ products = CatalogB
    /\ workers = 1
    /\ by_category = IndexByCategory(products)
    /\ by_id = IndexById(products)
    /\ compatibility_cache = _precompute_compatibility(products)
    /\ pc = [c \in Calls |-> "idle"]
    /\ request = [c \in Calls |-> NoRequest]
    /\ base_product = [c \in Calls |-> NoProduct]
    /\ candidates = [c \in Calls |-> NoCandidates]
    /\ outfits = [c \in Calls |-> <<>>]
    /\ attempts = [c \in Calls |-> 0]
    /\ returned = [c \in Calls |-> <<>>]
    /\ recommendation_cache = <<>>
    /\ max_size \in 1..MaxCacheSize
    /\ cached_result = Miss
    /\ inserted_at = EmptyDict
    /\ clock = 0

\* RecommendationCache.get
CacheGet(req) ==
    /\ cached_result' = DictGet(recommendation_cache, _cache_key(req))
    /\ UNCHANGED <<recommendation_cache, max_size, inserted_at, clock>>
    /\ UNCHANGED <<engineVars, callVars>>

\* RecommendationCache.set
CacheSet(req, outfit_list) ==
    /\ clock < MaxCacheOps
    /\ recommendation_cache' =
           DictSet(AfterEviction(recommendation_cache, max_size), _cache_key(req),
                   [i \in DOMAIN outfit_list |-> OutfitToDict(outfit_list[i])])
    /\ clock' = clock + 1
    /\ inserted_at' =
           InsertedAfterSet(AfterEviction(recommendation_cache, max_size),
                            _cache_key(req), clock + 1)
    /\ UNCHANGED <<max_size, cached_result>>
    /\ UNCHANGED <<engineVars, callVars>>

\* RecommendationCache.clear
CacheClear ==
    /\ recommendation_cache' = <<>>
    /\ inserted_at' = EmptyDict
    /\ UNCHANGED <<max_size, cached_result, clock>>
    /\ UNCHANGED <<engineVars, callVars>>

CacheNext ==
    \/ \E req \in CacheRequests, outfit_list \in CacheOutfitLists :
          CacheSet(req, outfit_list)
    \/ \E req \in CacheRequests : CacheGet(req)
    \/ CacheClear

CacheSpec == CacheInit /\ [][CacheNext]_vars

(* ---------------------------------------------------------------------- *)
(* Properties                                                             *)
(* ---------------------------------------------------------------------- *)

CatalogIds == {products[i].id : i \in DOMAIN products}

Active(c) == pc[c] # "idle"

Resolves(c) == request[c].base_product_id \in CatalogIds

\* The filtered candidate lists of call c, recomputed from its request.
CandidatesOf(c) ==
    _filter_candidates(by_category, by_id[request[c].base_product_id],
                       request[c].occasion, request[c].season,
                       request[c].max_budget, request[c].style_preference)

\* A slot the base product does not fill has an empty candidate list.
RequiredSlotEmpty(c) ==
    \E category \in {TOP, BOTTOM, FOOTWEAR} :
        /\ by_id[request[c].base_product_id].category # category
        /\ CandidatesOf(c)[category] = <<>>

Core(outfit) == <<outfit.top.id, outfit.bottom.id, outfit.footwear.id>>

\* Every outfit a call holds: accepted so far, or handed back.
HeldOutfits(c) == Range(outfits[c]) \cup Range(returned[c])

(* C1: a call whose base_product_id is no identifier of the catalog ends     *)
(* with the "not found" error and hands back no outfit, whatever the other   *)
(* request fields are.                                                       *)
C1_UnknownBaseRaises ==
    \A c \in Calls :
        (Active(c) /\ ~Resolves(c)) =>
            /\ pc[c] = "raised"
            /\ returned[c] = <<>>
            /\ outfits[c] = <<>>
            /\ attempts[c] = 0

C1_Witness ==
    \E c \in Calls :
        /\ pc[c] = "raised"
        /\ ~Resolves(c)
        /\ Truthy(request[c].occasion)
        /\ TruthyNum(request[c].max_budget)

(* C2: a call whose base product resolves never raises; when a required      *)
(* slot has no candidate every attempt is skipped and the list handed back   *)
(* is empty.                                                                 *)
C2_ResolvedNeverRaises ==
    \A c \in Calls :
        (Active(c) /\ Resolves(c)) =>
            /\ pc[c] \in {"loop", "returned"}
            /\ RequiredSlotEmpty(c) => (outfits[c] = <<>> /\ returned[c] = <<>>)

C2_Witness ==
    \E c \in Calls :
        /\ pc[c] = "returned"
        /\ Resolves(c)
        /\ RequiredSlotEmpty(c)
        /\ request[c].num_recommendations >= 1
        /\ returned[c] = <<>>

\* ranked is accepted, scored, in best-first order with ties in acceptance
\* order, cut to n elements.
PositionIn(accepted, outfit) ==
    CHOOSE k \in DOMAIN accepted : Core(accepted[k]) = Core(outfit)

RankedBestFirst(accepted, ranked, n) ==
    /\ Len(ranked) <= n
    /\ Len(ranked) = Min2(n, Len(accepted))
    /\ \A i \in DOMAIN ranked :
          \E k \in DOMAIN accepted :
              /\ Core(accepted[k]) = Core(ranked[i])
              /\ accepted[k].accessories = ranked[i].accessories
    /\ \A i, j \in DOMAIN ranked :
          i < j =>
              /\ ranked[i].match_score >= ranked[j].match_score
              /\ ranked[i].match_score = ranked[j].match_score
                    => PositionIn(accepted, ranked[i]) < PositionIn(accepted, ranked[j])

(* C3: the list handed back is ordered best-first: scores never increase     *)
(* along it, outfits with equal scores keep their acceptance order, and it   *)
(* has at most num_recommendations elements.                                 *)
C3_BestFirst ==
    [][\A c \in Calls :
          (pc[c] = "loop" /\ pc'[c] = "returned") =>
              RankedBestFirst(outfits[c], returned'[c],
                              request[c].num_recommendations)]_vars

\* Two outfits with different scores come back.
C3_Witness ==
    \E c \in Calls :
        /\ pc[c] = "returned"
        /\ Len(returned[c]) = 2
        /\ returned[c][1].match_score > returned[c][2].match_score

(* C4: no two outfits of one call share the (top, bottom, footwear)          *)
(* identifier triple, in the list being collected and in the list handed     *)
(* back: an outfit whose triple is already held is dropped whatever its      *)
(* accessories are.                                                          *)
C4_NoRepeatedTriple ==
    \A c \in Calls :
        /\ \A i, j \in DOMAIN outfits[c] :
              i # j => Core(outfits[c][i]) # Core(outfits[c][j])
        /\ \A i, j \in DOMAIN returned[c] :
              i # j => Core(returned[c][i]) # Core(returned[c][j])

\* All attempts are used with one outfit held although two were asked for and
\* the accessories offer several lists: every later attempt was dropped.
C4_Witness ==
    \E c \in Calls :
        /\ pc[c] = "loop"
        /\ attempts[c] = MAX_ATTEMPTS
        /\ request[c].num_recommendations = 2
        /\ Len(outfits[c]) = 1
        /\ Len(candidates[c][ACCESSORY]) >= 2

ItemIds(outfit) ==
    [i \in DOMAIN OutfitItems(outfit) |-> OutfitItems(outfit)[i].id]

NoRepeatedId(ids) == \A i, j \in DOMAIN ids : i # j => ids[i] # ids[j]

(* C5: in every outfit held by a call no product identifier occurs twice:    *)
(* top, bottom, footwear and the accessories are pairwise distinct.          *)
C5_NoProductTwice ==
    \A c \in Calls : \A o \in HeldOutfits(c) : NoRepeatedId(ItemIds(o))

C5_Witness ==
    \E c \in Calls :
        /\ pc[c] = "returned"
        /\ \E i \in DOMAIN returned[c] : Len(returned[c][i].accessories) >= 2

C7_BoundedAttempts ==
    [][\A c \in Calls :
          /\ attempts'[c] <= MAX_ATTEMPTS
          /\ (pc[c] = "loop" /\ pc'[c] = "loop"
              /\ (attempts'[c] # attempts[c] \/ outfits'[c] # outfits[c])) =>
                 /\ attempts'[c] = attempts[c] + 1
                 /\ attempts[c] < MAX_ATTEMPTS
                 /\ Len(outfits[c]) < request[c].num_recommendations
                 /\ \/ outfits'[c] = outfits[c]
                    \/ /\ Len(outfits'[c]) = Len(outfits[c]) + 1
                       /\ SubSeq(outfits'[c], 1, Len(outfits[c])) = outfits[c]
                       /\ ~_is_duplicate(outfits'[c][Len(outfits'[c])], outfits[c])
          /\ (pc[c] = "loop" /\ pc'[c] # "loop") =>
                 /\ pc'[c] = "returned"
                 /\ \/ Len(outfits[c]) >= request[c].num_recommendations
                    \/ attempts[c] = MAX_ATTEMPTS]_vars

\* The cap is reached with one outfit held and two asked for.
C7_Witness ==
    \E c \in Calls :
        /\ pc[c] = "loop"
        /\ attempts[c] = MAX_ATTEMPTS
        /\ Len(outfits[c]) = 1
        /\ request[c].num_recommendations = 2

CatalogProducts == Range(products)

(* C8: for all products P and Q of the catalog the compatibility of (P, Q)   *)
(* equals that of (Q, P) and lies in [0, 1] (0..100 hundredths).             *)
C8_CompatibilitySymmetric ==
    \A p, q \in CatalogProducts :
        /\ _get_compatibility(compatibility_cache, p, q)
              = _get_compatibility(compatibility_cache, q, p)
        /\ _get_compatibility(compatibility_cache, p, q) \in 0..100

\* A selection has looked up a candidate whose identifier sorts before the base
\* product's, under an entry that is not the default.
C8_Witness ==
    \E c \in Calls :
        /\ pc[c] = "loop"
        /\ attempts[c] >= 1
        /\ \E i \in DOMAIN candidates[c][TOP] :
              /\ candidates[c][TOP][i].id < base_product[c].id
              /\ _get_compatibility(compatibility_cache, base_product[c],
                                    candidates[c][TOP][i]) # DEFAULT_COMPATIBILITY

\* The sorted identifier pairs of two distinct catalog products.
UnorderedPairs == {<<p.id, q.id>> : p, q \in CatalogProducts} \cap
                  {<<a, b>> \in CatalogIds \X CatalogIds : a < b}

(* C9: the index holds exactly one entry per unordered pair of distinct      *)
(* catalog products, under the sorted identifier pair, with the coarse       *)
(* color score of the two products; a lookup without an entry (a product     *)
(* with itself, a product that is not in the catalog) yields 0.5.            *)
C9_IndexComplete ==
    /\ DOMAIN compatibility_cache = UnorderedPairs
    /\ 2 * Cardinality(DOMAIN compatibility_cache)
          = Len(products) * (Len(products) - 1)
    /\ \A p, q \in CatalogProducts :
          p.id < q.id =>
              compatibility_cache[<<p.id, q.id>>]
                  = _calculate_color_compatibility(p.color, q.color)
    /\ \A p \in CatalogProducts :
          /\ _get_compatibility(compatibility_cache, p, p) = DEFAULT_COMPATIBILITY
          /\ _get_compatibility(compatibility_cache, p, NoProduct)
                = DEFAULT_COMPATIBILITY
          /\ _get_compatibility(compatibility_cache, NoProduct, p)
                = DEFAULT_COMPATIBILITY

\* A catalog whose identifiers are not in list order, after a call was served.
C9_Witness ==
    /\ \E i \in DOMAIN products : i < Len(products) /\ products[i].id > products[i + 1].id
    /\ Cardinality(DOMAIN compatibility_cache) = 6
    /\ \E c \in Calls : pc[c] = "returned" /\ returned[c] # <<>>

(* C10: no step of any call, alone or interleaved with another call's,       *)
(* changes the compatibility index or the catalog.                           *)
C10_IndexReadOnly ==
    [][/\ compatibility_cache' = compatibility_cache
       /\ products' = products]_vars

\* Two calls in progress at once: one in its loop after an attempt, the other
\* done (a list handed back or the not-found error).
C10_Witness ==
    \E c, d \in Calls :
        /\ c # d
        /\ pc[c] = "loop"
        /\ attempts[c] >= 1
        /\ pc[d] \in {"returned", "raised"}

\* The request respects the data model: a maximum budget, if present, is
\* positive.
BudgetInDomain(req) == req.max_budget.some => req.max_budget.value > 0

\* Product p passes every constraint that request req gives, for base product
\* base: each given constraint is one conjunct, an absent one is TRUE.
Admitted(p, req, base) ==
    /\ (req.occasion # None => req.occasion \in p.occasion)
    /\ (req.season # None => (p.season = req.season \/ p.season = ALL_SEASON))
    /\ (req.style_preference # None =>
           (p.style = req.style_preference \/ p.style = base.style))
    /\ (req.max_budget.some =>
           2 * p.price <= 3 * (req.max_budget.value - base.price))

AdmittedOf(category, req, base) ==
    SelectSeq(products, LAMBDA p : p.category = category /\ Admitted(p, req, base))

(* C11: for a request of the data model (a budget, if present, is positive)   *)
(* the candidate list of each of the four categories is exactly the catalog  *)
(* products of that category, in catalog order, that pass every given        *)
(* constraint: occasion listed; season equal or all-season; style equal to   *)
(* the preference or to the base style; price <= (max_budget - base price)   *)
(* x 1.5.  An absent constraint removes nothing, the base product stays in   *)
(* its list unless a constraint excludes it, and an empty list is a result,  *)
(* not an error.                                                             *)
C11_FilterIntersection ==
    \A c \in Calls :
        (pc[c] = "loop" /\ BudgetInDomain(request[c])) =>
            \A category \in Range(CategoryOrder) :
                candidates[c][category]
                    = AdmittedOf(category, request[c], base_product[c])

\* All four constraints are given; a list lost some products and kept others,
\* and the base product is still in its own list.
C11_Witness ==
    \E c \in Calls :
        /\ pc[c] = "loop"
        /\ request[c].occasion # None /\ request[c].season # None
        /\ request[c].style_preference # None
        /\ request[c].max_budget.some /\ request[c].max_budget.value > 0
        /\ \E category \in Range(CategoryOrder) :
              /\ candidates[c][category] # <<>>
              /\ Len(candidates[c][category]) < Len(by_category[category])
        /\ \E i \in DOMAIN candidates[c][base_product[c].category] :
              candidates[c][base_product[c].category][i] = base_product[c]

\* The categories for which generate_recommendations calls _select_item with
\* base product base: every category the base product does not fill, and the
\* accessories in any case.
SelectionSites(base) ==
    {category \in Range(CategoryOrder) :
        category = ACCESSORY \/ category # base.category}

\* The candidates other than the base product.
Others(cands, base) == SelectSeq(cands, LAMBDA p : p.id # base.id)

\* compatibility(base, candidate) + 0.2 if the styles are equal, in hundredths.
SelectionScore(cache, base, p) ==
    _get_compatibility(cache, base, p) + (IF p.style = base.style THEN 20 ELSE 0)

\* k = max(3, count/3)
TopK(count) == Max2(3, count \div 3)

\* How many of the candidates score strictly more than p.
StrictlyBetter(cache, base, others, p) ==
    Cardinality({i \in DOMAIN others :
                    SelectionScore(cache, base, others[i])
                        > SelectionScore(cache, base, p)})

\* How many of the candidates other than p score at least as much as p.
AtLeastAsGood(cache, base, others, p) ==
    Cardinality({i \in DOMAIN others :
                    /\ others[i] # p
                    /\ SelectionScore(cache, base, others[i])
                           >= SelectionScore(cache, base, p)})

\* Every possible result is a candidate other than the base product with
\* fewer than k candidates strictly above it, and every candidate that is
\* among the top k under any order of ties is a possible result.
SelectsFromTopK(cache, cands, base) ==
    /\ \A x \in _select_item(cache, cands, base) :
          /\ x \in Range(Others(cands, base))
          /\ StrictlyBetter(cache, base, Others(cands, base), x)
                 < TopK(Len(Others(cands, base)))
    /\ \A y \in Range(Others(cands, base)) :
          AtLeastAsGood(cache, base, Others(cands, base), y)
                 < TopK(Len(Others(cands, base)))
             => y \in _select_item(cache, cands, base)

(* C12 as stated: whenever _select_item returns, the item is one of the top   *)
(* k = max(3, count/3) candidates other than the base product, ranked by      *)
(* compatibility(base, candidate) + 0.2 for an equal style: fewer than k      *)
(* candidates score strictly more than it, and each of the top k can be      *)
(* returned.                                                                 *)
C12_AsStated ==
    \A c \in Calls :
        pc[c] = "loop" =>
            \A category \in SelectionSites(base_product[c]) :
                ~SelectItemRaises(candidates[c][category]) =>
                    SelectsFromTopK(compatibility_cache, candidates[c][category],
                                    base_product[c])

\* No candidate other than the base product is available.
OnlyBaseAvailable(cands, base) == Others(cands, base) = <<>>

(* C13 as stated: _select_item never returns the base product, and it fails   *)
(* with "no candidates available" whenever no candidate other than the base  *)
(* product is available.                                                     *)
C13_AsStated ==
    \A c \in Calls :
        pc[c] = "loop" =>
            \A category \in SelectionSites(base_product[c]) :
                /\ OnlyBaseAvailable(candidates[c][category], base_product[c])
                      => SelectItemRaises(candidates[c][category])
                /\ ~SelectItemRaises(candidates[c][category])
                      => base_product[c]
                            \notin _select_item(compatibility_cache,
                                                candidates[c][category],
                                                base_product[c])

\* The sum of the prices of the first n items of a list.
RECURSIVE PriceOfFirst(_, _)
PriceOfFirst(items, n) ==
    IF n = 0 THEN 0 ELSE PriceOfFirst(items, n - 1) + items[n].price

(* C14: the total_price of every outfit handed back equals the sum of the    *)
(* prices of its top, bottom, footwear and all of its accessories.           *)
C14_TotalPriceIsSum ==
    \A c \in Calls : \A i \in DOMAIN returned[c] :
        returned[c][i].total_price
            = PriceOfFirst(OutfitItems(returned[c][i]),
                           Len(OutfitItems(returned[c][i])))

\* An outfit with three accessories is handed back.
C14_Witness ==
    \E c \in Calls :
        /\ pc[c] = "returned"
        /\ \E i \in DOMAIN returned[c] :
              /\ Len(returned[c][i].accessories) = 3
              /\ returned[c][i].total_price
                     > returned[c][i].top.price + returned[c][i].bottom.price
                       + returned[c][i].footwear.price

\* The five sub-scores of an outfit under the scorer built for request req.
ColorOf(o) == _score_color_harmony(o)
StyleOf(o) == _score_style_compatibility(o)
OccasionOf(o, req) == _score_occasion_fit(o, req.occasion)
SeasonOf(o, req) == _score_season_fit(o, req.season)
BudgetOf(o, req) == _score_budget(o, req.max_budget)

\* A sub-score lies in [0, 1].
InUnit(sub_score) == sub_score \in 0..SUB

ScoredAsClaimed(o, req) ==
    /\ InUnit(ColorOf(o)) /\ InUnit(StyleOf(o)) /\ InUnit(OccasionOf(o, req))
    /\ InUnit(SeasonOf(o, req)) /\ InUnit(BudgetOf(o, req))
    /\ o.match_score = 30 * ColorOf(o) + 25 * StyleOf(o) + 20 * OccasionOf(o, req)
                        + 15 * SeasonOf(o, req) + 10 * BudgetOf(o, req)
    /\ o.match_score \in 0..(100 * SUB)

(* C15: for a request of the data model (a budget, if present, is positive)   *)
(* every scored outfit has a total in [0, 1]: each of the five sub-scores    *)
(* lies in [0, 1], the weights are 0.30, 0.25, 0.20, 0.15 and 0.10 and sum   *)
(* to exactly 1, and the total is the weighted sum of the sub-scores.        *)
C15_ScoreInUnitInterval ==
    /\ COLOR_WEIGHT = 30 /\ STYLE_WEIGHT = 25 /\ OCCASION_WEIGHT = 20
    /\ SEASON_WEIGHT = 15 /\ BUDGET_WEIGHT = 10
    /\ COLOR_WEIGHT + STYLE_WEIGHT + OCCASION_WEIGHT + SEASON_WEIGHT
          + BUDGET_WEIGHT = 100
    /\ \A c \in Calls :
          BudgetInDomain(request[c]) =>
              \A i \in DOMAIN returned[c] :
                  ScoredAsClaimed(returned[c][i], request[c])

\* An outfit over its budget, scored for an occasion, is handed back.
C15_Witness ==
    \E c \in Calls :
        /\ pc[c] = "returned"
        /\ request[c].occasion # None
        /\ request[c].max_budget.some
        /\ \E i \in DOMAIN returned[c] :
              /\ returned[c][i].total_price > request[c].max_budget.value
              /\ returned[c][i].match_score > 0

\* The budget sub-score s (in units of 1/SUB) that the claim gives to a total
\* price under a budget; the over-budget case is stated times the budget, so
\* that nothing is rounded.
BudgetScoreAsClaimed(s, total_price, max_budget) ==
    IF ~max_budget.some THEN 10 * s = 7 * SUB
    ELSE IF total_price <= max_budget.value
         THEN IF 10 * total_price < 7 * max_budget.value
              THEN 10 * s = 9 * SUB
              ELSE s = SUB
    ELSE 10 * s * max_budget.value
            = Max2(SUB * max_budget.value,
                   5 * SUB * max_budget.value
                   - Min2(5 * SUB * max_budget.value,
                          10 * SUB * (total_price - max_budget.value)))

\* The three examples: exactly the budget, half of it, 20% over it.
BudgetExamples(s, total_price, budget) ==
    /\ total_price = budget => s = SUB
    /\ 2 * total_price = budget => 10 * s = 9 * SUB
    /\ 5 * (total_price - budget) = budget => 10 * s = 3 * SUB

(* C16: for a request of the data model the budget sub-score is 0.7 without  *)
(* a budget; with total <= budget it is 0.9 if total/budget < 0.7 and 1.0    *)
(* otherwise (1.0 at exactly the budget, 0.9 at half of it); with total >    *)
(* budget it is max(0.1, 0.5 - min(0.5, overage/budget)) (0.3 at 20% over).  *)
C16_BudgetScore ==
    \A c \in Calls :
        BudgetInDomain(request[c]) =>
            \A i \in DOMAIN returned[c] :
                /\ BudgetScoreAsClaimed(BudgetOf(returned[c][i], request[c]),
                                        returned[c][i].total_price,
                                        request[c].max_budget)
                /\ request[c].max_budget.some =>
                       BudgetExamples(BudgetOf(returned[c][i], request[c]),
                                      returned[c][i].total_price,
                                      request[c].max_budget.value)

\* Two outfits are handed back under one budget: one 20% over it, scoring 0.3,
\* and a cheaper one that is still over it.
C16_Witness ==
    \E c \in Calls :
        /\ pc[c] = "returned"
        /\ request[c].max_budget.some
        /\ \E i, j \in DOMAIN returned[c] :
              /\ 5 * (returned[c][i].total_price - request[c].max_budget.value)
                     = request[c].max_budget.value
              /\ 10 * BudgetOf(returned[c][i], request[c]) = 3 * SUB
              /\ returned[c][j].total_price < returned[c][i].total_price
              /\ returned[c][j].total_price > request[c].max_budget.value

\* The coarse table as the claim states it, on a hue distance in [0, 180]:
\* the band 150-180 holds its upper end, two exactly opposite hues.
CoarseBandAsClaimed(hd) ==
    IF hd.num < 30 * hd.den THEN 90
    ELSE IF 150 * hd.den < hd.num /\ hd.num <= 180 * hd.den THEN 85
    ELSE IF 115 * hd.den < hd.num /\ hd.num < 125 * hd.den THEN 75
    ELSE 60

(* C17 as stated: the score stored in the index for two catalog products is  *)
(* 0.9 when the hue distance d of their colors is below 30, 0.85 for d in    *)
(* the band 150-180 (d = 180 included), 0.75 for d in the band 115-125, and  *)
(* 0.6 otherwise.                                                            *)
C17_AsStated ==
    \A p, q \in CatalogProducts :
        p.id < q.id =>
            compatibility_cache[<<p.id, q.id>>]
                = CoarseBandAsClaimed(hue_diff(p.color, q.color))

\* The fine table as the claim states it: the band 150-180 holds d = 180 and
\* the band 30-60 holds d = 30.
FineBandAsClaimed(hd) ==
    IF hd.num < 15 * hd.den THEN 95
    ELSE IF hd.num < 30 * hd.den THEN 85
    ELSE IF 115 * hd.den < hd.num /\ hd.num < 125 * hd.den THEN 75
    ELSE IF 150 * hd.den < hd.num /\ hd.num <= 180 * hd.den THEN 80
    ELSE IF 30 * hd.den <= hd.num /\ hd.num < 60 * hd.den THEN 70
    ELSE 50

\* The sum of the claimed per-item scores of items 2..n against the top.
RECURSIVE ClaimedItemScores(_, _)
ClaimedItemScores(items, n) ==
    IF n <= 1 THEN 0
    ELSE ClaimedItemScores(items, n - 1)
         + FineBandAsClaimed(hue_diff(items[n].color, items[1].color))

\* min(0.1, 0.03 x number of items with saturation < 0.2), in units of 1/SUB.
ClaimedNeutralBonus(items) ==
    Min2(SUB \div 10,
         ((3 * SUB) \div 100)
         * Cardinality({i \in DOMAIN items :
                          5 * to_hsv_sat(items[i].color).num
                              < to_hsv_sat(items[i].color).den}))

\* The average of the per-item scores plus the bonus, clamped to 1.
ColorScoreAsClaimed(items) ==
    Min2(SUB,
         (ClaimedItemScores(items, Len(items)) * (SUB \div 100))
             \div (Len(items) - 1)
         + ClaimedNeutralBonus(items))

(* C18 as stated: the color sub-score of a scored outfit is the average over *)
(* the items other than the top of 0.95 (d < 15), 0.85 (15 <= d < 30), 0.75  *)
(* (band 115-125), 0.80 (band 150-180, d = 180 included), 0.70 (band 30-60,  *)
(* d = 30 included), 0.50 (otherwise), plus min(0.1, 0.03 x low-saturation   *)
(* items), clamped to 1.0.                                                   *)
C18_AsStated ==
    \A c \in Calls : \A i \in DOMAIN returned[c] :
        ColorOf(returned[c][i]) = ColorScoreAsClaimed(OutfitItems(returned[c][i]))

\* The heads a color clause can have, and the generic fallback phrase.
ColorHeads == {"Excellent color harmony", "Good color coordination", "Color harmony"}
Fallback == "Well-coordinated outfit"

Clauses(o) == Range(o.reasoning)

ReasonedAsClaimed(o, req) ==
    /\ Clauses(o) \cap ColorHeads # {}
    /\ "Style" \in Clauses(o) <=> 10 * StyleOf(o) >= 8 * SUB
    /\ "Occasion" \in Clauses(o)
          <=> (req.occasion # None /\ 10 * OccasionOf(o, req) >= 7 * SUB)
    /\ "Season" \in Clauses(o)
          <=> (req.season # None /\ 10 * SeasonOf(o, req) >= 7 * SUB)
    /\ "Budget" \in Clauses(o) <=> req.max_budget.some
    /\ Fallback \in Clauses(o) <=> Clauses(o) \ {Fallback} = {}
    /\ Clauses(o) \subseteq
          ColorHeads \cup {"Style", "Occasion", "Season", "Budget", Fallback}

(* C19: for a request of the data model (a budget, if present, is positive)   *)
(* the reasoning of a scored outfit holds the color clause always, the style *)
(* clause iff the style sub-score is >= 0.8, the occasion (season) clause    *)
(* iff a target occasion (season) was given and its sub-score is >= 0.7, the *)
(* budget clause iff a budget was given, and the generic fallback phrase iff *)
(* no clause qualifies.                                                      *)
C19_ReasoningClauses ==
    \A c \in Calls :
        BudgetInDomain(request[c]) =>
            \A i \in DOMAIN returned[c] :
                ReasonedAsClaimed(returned[c][i], request[c])

\* An outfit scored for an occasion and a budget, without a season, whose
\* styles are mixed: color, occasion and budget clauses, no style clause.
C19_Witness ==
    \E c \in Calls :
        /\ pc[c] = "returned"
        /\ request[c].occasion # None /\ request[c].season = None
        /\ request[c].max_budget.some
        /\ \E i \in DOMAIN returned[c] :
              /\ 10 * StyleOf(returned[c][i]) < 8 * SUB
              /\ Len(returned[c][i].reasoning) = 3
              /\ returned[c][i].reasoning[2] = "Occasion"
              /\ returned[c][i].reasoning[3] = "Budget"


(* ---------------------------------------------------------------------- *)
(* C20                                                                    *)
(* ---------------------------------------------------------------------- *)

\* The entries a step removes from the cache.
Evicted == Keys(recommendation_cache) \ Keys(recommendation_cache')

\* The step is a set of this request.
SetOf(req) == \E outfit_list \in CacheOutfitLists : CacheSet(req, outfit_list)

\* A set of a request whose key is not cached, into a cache that is full.
InsertsIntoFull(req) ==
    /\ SetOf(req)
    /\ _cache_key(req) \notin Keys(recommendation_cache)
    /\ Len(recommendation_cache) >= max_size

\* Exactly one entry goes, it is the earliest inserted of those present, and
\* the others stay next to the new one.
EvictsEarliest(req) ==
    /\ Cardinality(Evicted) = 1
    /\ \A gone \in Evicted : \A k \in Keys(recommendation_cache) :
          inserted_at[gone] <= inserted_at[k]
    /\ Keys(recommendation_cache') =
           (Keys(recommendation_cache) \ Evicted) \cup {_cache_key(req)}

ContainsBase(o, base) ==
    IF base.category = TOP THEN o.top.id = base.id
    ELSE IF base.category = BOTTOM THEN o.bottom.id = base.id
    ELSE IF base.category = FOOTWEAR THEN o.footwear.id = base.id
    ELSE \E i \in DOMAIN o.accessories : o.accessories[i].id = base.id

(* C21 as stated: every outfit returned by generate_recommendations contains *)
(* the base product of the request: a top, bottom or footwear base product   *)
(* fills the slot of its category, an accessory base product is one of the   *)
(* outfit's accessories.                                                     *)
C21_AsStated ==
    \A c \in Calls :
        pc[c] = "returned" =>
            \A i \in DOMAIN returned[c] :
                ContainsBase(returned[c][i], by_id[request[c].base_product_id])


(* ---------------------------------------------------------------------- *)
(* C22                                                                    *)
(* ---------------------------------------------------------------------- *)

\* A set of a request whose key is cached.
Overwrites(req) ==
    /\ SetOf(req)
    /\ _cache_key(req) \in Keys(recommendation_cache)

\* The entries under the other keys, as a set of key and value pairs.
OtherEntries(d, key) == {d[i] : i \in {j \in DOMAIN d : d[j].key # key}}

(* C22 as stated: a set for a request whose key is already cached only       *)
(* replaces the value under that key: no other entry is removed and the      *)
(* number of entries is unchanged, also when the cache holds max_size        *)
(* entries.                                                                  *)
C22_AsStated ==
    [][\A req \in CacheRequests :
          Overwrites(req) =>
              /\ Len(recommendation_cache') = Len(recommendation_cache)
              /\ OtherEntries(recommendation_cache', _cache_key(req))
                     = OtherEntries(recommendation_cache, _cache_key(req))]_vars


(* ---------------------------------------------------------------------- *)
(* C23                                                                    *)
(* ---------------------------------------------------------------------- *)

\* The slots that the base product does not fill.
FreeSlots(base) == {TOP, BOTTOM, FOOTWEAR} \ {base.category}

\* The size of the top k of a slot: k = max(3, count/3), capped by the number
\* of candidates.
TopKSize(cands, base) ==
    Min2(TopK(Len(Others(cands, base))), Len(Others(cands, base)))

\* The product of the top-k sizes of the free slots.
TripleBound(cands, base) ==
    LET Size(category) ==
            IF category \in FreeSlots(base)
            THEN TopKSize(cands[category], base) ELSE 1
    IN  Size(TOP) * Size(BOTTOM) * Size(FOOTWEAR)

\* The number of distinct triples that the candidates of the free slots form.
TripleCount(cands, base) ==
    LET Size(category) ==
            IF category \in FreeSlots(base)
            THEN Len(Others(cands[category], base)) ELSE 1
    IN  Size(TOP) * Size(BOTTOM) * Size(FOOTWEAR)

\* The bound of call c, from its request.
BoundOf(c) == TripleBound(CandidatesOf(c), by_id[request[c].base_product_id])

\* The call leaves its loop and hands back its list.
Returns(c) == pc[c] = "loop" /\ pc'[c] = "returned"

\* C23: a call never holds or returns more outfits than the product of the
\* top-k sizes of the slots not filled by the base product; when
\* num_recommendations exceeds that product, the call returns fewer outfits
\* than requested, and only after all 100 attempts are used.
C23_TopKBound ==
    /\ [](\A c \in Calls :
             pc[c] \in {"loop", "returned"} =>
                 /\ Len(outfits[c]) <= BoundOf(c)
                 /\ Len(returned[c]) <= BoundOf(c))
    /\ [][\A c \in Calls :
             (Returns(c) /\ request[c].num_recommendations > BoundOf(c))
                 => /\ Len(returned'[c]) < request[c].num_recommendations
                    /\ attempts[c] = MAX_ATTEMPTS]_vars

\* Four outfits requested where four distinct triples exist, and the call
\* has returned the three that the top three bottoms allow.
C23_Witness ==
    \E c \in Calls :
        /\ pc[c] = "returned"
        /\ request[c].num_recommendations = 4
        /\ BoundOf(c) = 3
        /\ TripleCount(CandidatesOf(c), by_id[request[c].base_product_id]) = 4
        /\ Len(returned[c]) = 3

====
